---------------------------- MODULE Spec2Model ----------------------------
(***************************************************************************)
(* Model of driver-common.c of LPrint: the driver registry, the creation   *)
(* of a driver for a printer (lprintCreateDriver) with the synthesis of    *)
(* the printer's capability attributes (lprint_copy_media and the          *)
(* resolution attributes), lprintDeleteDriver and lprintGetMakeAndModel.   *)
(*                                                                         *)
(* An ipp_t (the printer's attributes, a collection) is a sequence of      *)
(* attributes [name, tag, values]; an attribute handle is its index in     *)
(* that sequence and NULL is 0.  C strings are TLA+ strings.  A pointer    *)
(* that may be NULL and points to a record is a sequence of length 0 or 1. *)
(***************************************************************************)
EXTENDS Integers, Sequences, FiniteSets, TLC

VARIABLES
  attrs,      \* printer->attrs
  pdriver,    \* printer->driver: an instance id, or NULL
  rwlock,     \* printer->rwlock: [writer: thread or NULL, readers: Nat]
  heap,       \* the lprint_driver_t instances, by id
  closes,     \* closes[d]: calls of lprintCloseDevice made for instance d
  pc,         \* pc[t]: where thread t is in lprintCreateDriver
  local,      \* local[t]: lprintCreateDriver's locals (name, i, driver; driver
              \*   is the value returned at "done") and, while it runs, the
              \*   printer as it was when the lock was taken (pre, predrv)
  mm,         \* the last lprintGetMakeAndModel call: its argument and result
  crashed     \* the process died on a NULL dereference

vars == <<attrs, pdriver, rwlock, heap, closes, pc, local, mm, crashed>>

---------------------------------------------------------------------------
(* Bounds of the model *)

NumThreads == 2     \* threads calling lprintCreateDriver on the printer
MaxDrivers == 2     \* instances calloc can hand out before it returns NULL
MaxMedia == 3       \* longest media list of the capability specifications
MaxRes == 3         \* longest resolution list of the capability specifications

NULL == 0
NoName == "(null)"  \* the NULL char pointer

Threads == 1..NumThreads
DriverIds == 1..MaxDrivers

---------------------------------------------------------------------------
(* The registry *)

lprint_drivers ==
  << "dymo_lm-400", "dymo_lm-450", "dymo_lm-pc", "dymo_lm-pc-ii",
     "dymo_lm-pnp", "dymo_lp-350", "dymo_lw-300", "dymo_lw-310",
     "dymo_lw-315", "dymo_lw-320", "dymo_lw-330-turbo", "dymo_lw-330",
     "dymo_lw-400-turbo", "dymo_lw-400", "dymo_lw-450-duo-label",
     "dymo_lw-450-duo-tape", "dymo_lw-450-turbo", "dymo_lw-450-twin-turbo",
     "dymo_lw-450", "dymo_lw-4xl", "dymo_lw-duo-label", "dymo_lw-duo-tape",
     "dymo_lw-duo-tape-128", "dymo_lw-se450", "dymo_lw-wireless" >>

lprint_models ==
  << "Dymo LabelMANAGER 400", "Dymo LabelMANAGER 450", "Dymo LabelMANAGER PC",
     "Dymo LabelMANAGER PC II", "Dymo LabelMANAGER PNP", "Dymo LabelPOINT 350",
     "Dymo LabelWriter 300", "Dymo LabelWriter 310", "Dymo LabelWriter 315",
     "Dymo LabelWriter 320", "Dymo LabelWriter 330 Turbo",
     "Dymo LabelWriter 330", "Dymo LabelWriter 400 Turbo",
     "Dymo LabelWriter 400", "Dymo LabelWriter 450 DUO Label",
     "Dymo LabelWriter 450 DUO Tape", "Dymo LabelWriter 450 Turbo",
     "Dymo LabelWriter 450 Twin Turbo", "Dymo LabelWriter 450",
     "Dymo LabelWriter 4XL", "Dymo LabelWriter DUO Label",
     "Dymo LabelWriter DUO Tape", "Dymo LabelWriter DUO Tape 128",
     "Dymo LabelWriter SE450", "Dymo LabelWriter Wireless" >>

\* sizeof(lprint_drivers) / sizeof(lprint_drivers[0])
num_drivers == Len(lprint_drivers)

\* strncmp(s, prefix, n) == 0, for a prefix of n characters
strncmp0(s, prefix, n) == Len(s) >= n /\ SubSeq(s, 1, n) = prefix

\* Mutant: the loop stops one entry early
RECURSIVE DriverLoop_StopsEarly(_, _)
DriverLoop_StopsEarly(name, i) ==
  IF i >= num_drivers THEN NULL
  ELSE IF name = lprint_drivers[i] THEN i
  ELSE DriverLoop_StopsEarly(name, i + 1)

\* The for loop over the registry: the first i with !strcmp(name,
\* lprint_drivers[i]), or NULL when the loop ends without a match.
RECURSIVE DriverLoop(_, _)
DriverLoop(name, i) ==
  IF i > num_drivers THEN NULL
  ELSE IF name = lprint_drivers[i] THEN i
  ELSE DriverLoop(name, i + 1)

DriverIndex(name) == DriverLoop(name, 1)

\* The if/else chain that picks the family initializer
DriverFamily(name) ==
  IF strncmp0(name, "cpcl_", 5) THEN "CPCL"
  ELSE IF strncmp0(name, "dymo_", 5) THEN "DYMO"
  ELSE IF strncmp0(name, "epl1_", 5) THEN "EPL1"
  ELSE IF strncmp0(name, "epl2_", 5) THEN "EPL2"
  ELSE IF strncmp0(name, "fgl_", 4) THEN "FGL"
  ELSE IF strncmp0(name, "pcl_", 4) THEN "PCL"
  ELSE "ZPL"

---------------------------------------------------------------------------
(* The attribute store (the ipp functions the code calls) *)

IPP_TAG_INTEGER == "integer"
IPP_TAG_KEYWORD == "keyword"
IPP_TAG_TEXT == "text"
IPP_TAG_RESOLUTION == "resolution"
IPP_TAG_RANGE == "rangeOfInteger"
IPP_TAG_BEGIN_COLLECTION == "collection"

ippNew == << >>

RECURSIVE FindLoop(_, _, _, _)
FindLoop(ipp, name, type, i) ==
  IF i > Len(ipp) THEN NULL
  ELSE IF ipp[i].name = name /\ ipp[i].tag = type THEN i
  ELSE FindLoop(ipp, name, type, i + 1)

\* The first attribute of that name and value tag, or NULL
ippFindAttribute(ipp, name, type) == FindLoop(ipp, name, type, 1)

ippDeleteAttribute(ipp, attr) ==
  IF attr = NULL THEN ipp
  ELSE SubSeq(ipp, 1, attr - 1) \o SubSeq(ipp, attr + 1, Len(ipp))

\* Mutant: the attribute found is left in place
FindAndDelete_Keeps(ipp, name, type) == ipp

\* The delete-if-found idiom:
\*   if ((attr = ippFindAttribute(...)) != NULL) ippDeleteAttribute(...);
FindAndDelete(ipp, name, type) ==
  ippDeleteAttribute(ipp, ippFindAttribute(ipp, name, type))

ippAdd(ipp, name, type, values) ==
  Append(ipp, [name |-> name, tag |-> type, values |-> values])

ippAddInteger(ipp, name, value) == ippAdd(ipp, name, IPP_TAG_INTEGER, <<value>>)

ippAddString(ipp, type, name, value) == ippAdd(ipp, name, type, <<value>>)

\* ippAddStrings adds nothing (and returns NULL) for num_values < 1
ippAddStrings(ipp, type, name, num_values, values) ==
  IF num_values < 1 THEN ipp
  ELSE ippAdd(ipp, name, type, SubSeq(values, 1, num_values))

ippAddResolution(ipp, name, xres, yres) ==
  ippAdd(ipp, name, IPP_TAG_RESOLUTION, << <<xres, yres>> >>)

ippAddResolutions(ipp, name, num_values, xres, yres) ==
  IF num_values < 1 THEN ipp
  ELSE ippAdd(ipp, name, IPP_TAG_RESOLUTION,
              [k \in 1..num_values |-> <<xres[k], yres[k]>>])

ippAddRange(ipp, name, lower, upper) ==
  ippAdd(ipp, name, IPP_TAG_RANGE, << [lower |-> lower, upper |-> upper] >>)

\* A collection value is a pointer to an ipp_t: << >> is NULL, <<col>> is set.
ippAddCollection(ipp, name, col) ==
  ippAdd(ipp, name, IPP_TAG_BEGIN_COLLECTION, << <<col>> >>)

\* ippAddCollections(ipp, group, name, num_values, NULL): num_values NULL
\* members; nothing is added (and NULL returned) for num_values < 1.
ippAddCollections(ipp, name, num_values) ==
  IF num_values < 1 THEN ipp
  ELSE ippAdd(ipp, name, IPP_TAG_BEGIN_COLLECTION,
              [k \in 1..num_values |-> << >>])

\* The handle ippAddCollections returns: the attribute it appended, or NULL
AddedCollections(ipp, num_values) ==
  IF num_values < 1 THEN NULL ELSE Len(ipp) + 1

\* ippSetCollection(ipp, &attr, element, col): element counts from 0 and may
\* be one past the last member, which extends the attribute.
ippSetCollection(ipp, attr, element, col) ==
  IF attr = NULL \/ element < 0 \/ element > Len(ipp[attr].values)
    THEN ipp
    ELSE [ipp EXCEPT ![attr].values =
            IF element = Len(@) THEN Append(@, <<col>>)
            ELSE [@ EXCEPT ![element + 1] = <<col>>]]

\* ippSetString(ipp, &attr, 0, value)
ippSetString(ipp, attr, value) ==
  [ipp EXCEPT ![attr].values = [@ EXCEPT ![1] = value]]

\* ippGetString(attr, 0, NULL): NULL for a NULL attribute
ippGetString(ipp, attr) ==
  IF attr = NULL THEN NoName ELSE ipp[attr].values[1]

---------------------------------------------------------------------------
(* The media database (pwgMediaForPWG) *)

\* The sizes the database knows, in hundredths of a millimetre
MediaDB ==
  [ w36h23        |-> [width |-> 1270, length |-> 811],
    w54h144       |-> [width |-> 1905, length |-> 5080],
    roll_min_w6   |-> [width |-> 212,  length |-> 635],
    roll_max_w101 |-> [width |-> 3563, length |-> 9144] ]

\* pwgMediaForPWG(name): a pointer to the size, NULL for a name the database
\* does not know
pwgMediaForPWG(size_name) ==
  IF size_name \in DOMAIN MediaDB THEN << MediaDB[size_name] >> ELSE << >>

\* pwg->width, pwg->length: reading through a NULL pwg is undefined; junk is
\* what such a read yields when the process survives it
Deref(pwg, junk) == IF pwg = << >> THEN junk ELSE pwg[1]

\* The two ippAddInteger calls of lprint_create_media_size
MediaSizeOf(pwg) ==
  ippAddInteger(ippAddInteger(ippNew, "x-dimension", pwg.width),
                "y-dimension", pwg.length)

\* lprint_create_media_size(size_name)
lprint_create_media_size(size_name, junk) ==
  MediaSizeOf(Deref(pwgMediaForPWG(size_name), junk))

\* if (source) ippAddString(...); if (type) ippAddString(...)
AddIfGiven(col, name, value) ==
  IF value # NoName THEN ippAddString(col, IPP_TAG_KEYWORD, name, value)
  ELSE col

\* lprintCreateMediaCol(size_name, source, type, left_right, bottom_top)
lprintCreateMediaCol(size_name, source, type, left_right, bottom_top, junk) ==
  LET size == lprint_create_media_size(size_name, junk)
      c1 == ippAddString(ippNew, IPP_TAG_KEYWORD, "media-size-name", size_name)
      c2 == ippAddCollection(c1, "media-size", size)
      c3 == ippAddInteger(c2, "media-bottom-margin", bottom_top)
      c4 == ippAddInteger(c3, "media-left-margin", left_right)
      c5 == ippAddInteger(c4, "media-right-margin", left_right)
      c6 == ippAddInteger(c5, "media-top-margin", bottom_top)
  IN  AddIfGiven(AddIfGiven(c6, "media-source", source), "media-type", type)

---------------------------------------------------------------------------
(* lprint_copy_media *)

IsRollMax(size_name) == strncmp0(size_name, "roll_max_", 9)
IsRollMin(size_name) == strncmp0(size_name, "roll_min_", 9)

\* for (i = 0, count = 0; i < num_media; i ++)
\*   if (strncmp(media[i], "roll_max_", 9)) count ++;
RECURSIVE CountLoop(_, _)
CountLoop(media, i) ==
  IF i > Len(media) THEN 0
  ELSE (IF IsRollMax(media[i]) THEN 0 ELSE 1) + CountLoop(media, i + 1)

\* attr = ippAddCollections(attrs, ..., name, count, NULL); count = 0.
\* st = [ipp, attr, count, minname, maxname] is the function's state.
StartCollections(st, kind, count) ==
  [ ipp |-> ippAddCollections(st.ipp, kind, count),
    attr |-> AddedCollections(st.ipp, count),
    count |-> 0, minname |-> st.minname, maxname |-> st.maxname ]

\* The collection a fixed size adds: a media-col for media-col-database,
\* a bare media-size for media-size-supported
FixedSize(kind, driver, size_name, junk) ==
  IF kind = "media-col-database"
    THEN lprintCreateMediaCol(size_name, NoName, NoName, driver.left_right,
                              driver.bottom_top, junk)
    ELSE lprint_create_media_size(size_name, junk)

\* The loop that fills the collections
RECURSIVE FillLoop(_, _, _, _, _)
FillLoop(st, kind, driver, i, junk) ==
  IF i > Len(driver.media) THEN st
  ELSE FillLoop(
         IF IsRollMax(driver.media[i])
           THEN [st EXCEPT !.maxname = driver.media[i]]
         ELSE IF IsRollMin(driver.media[i])
           THEN [st EXCEPT !.minname = driver.media[i]]
         ELSE [st EXCEPT
                 !.ipp = ippSetCollection(st.ipp, st.attr, st.count,
                           FixedSize(kind, driver, driver.media[i], junk)),
                 !.count = st.count + 1],
         kind, driver, i + 1, junk)

\* Mutant: the y-dimension is built from the widths again
RangeOf_WidthTwice(minpwg, maxpwg) ==
  ippAddRange(ippAddRange(ippNew, "x-dimension", minpwg.width, maxpwg.width),
              "y-dimension", minpwg.width, maxpwg.width)

\* The two ippAddRange calls on the range entry's size
RangeOf(minpwg, maxpwg) ==
  ippAddRange(ippAddRange(ippNew, "x-dimension", minpwg.width, maxpwg.width),
              "y-dimension", minpwg.length, maxpwg.length)

\* The range entry: its size sits in a media-size member for
\* media-col-database, and is the entry itself for media-size-supported
RangeEntry(kind, size) ==
  IF kind = "media-col-database"
    THEN ippAddCollection(ippNew, "media-size", size)
    ELSE size

\* if (minname && maxname) { ... ippSetCollection(attrs, &attr, count, ...) }
AddRangeEntry(st, kind, junk) ==
  IF st.minname # NoName /\ st.maxname # NoName
    THEN [st EXCEPT !.ipp =
            ippSetCollection(st.ipp, st.attr, st.count,
              RangeEntry(kind,
                RangeOf(Deref(pwgMediaForPWG(st.minname), junk),
                        Deref(pwgMediaForPWG(st.maxname), junk))))]
    ELSE st

\* One of the two collection attributes: delete, count, add, fill, range
CopyCollections(st, kind, driver, junk) ==
  AddRangeEntry(
    FillLoop(
      StartCollections(
        [st EXCEPT !.ipp = FindAndDelete(st.ipp, kind, IPP_TAG_BEGIN_COLLECTION)],
        kind, CountLoop(driver.media, 1)),
      kind, driver, 1, junk),
    kind, junk)

\* Replace an integer attribute: delete if found, then add
ReplaceInteger(ipp, name, value) ==
  ippAddInteger(FindAndDelete(ipp, name, IPP_TAG_INTEGER), name, value)

\* Mutant: the keyword list is added without deleting the old one
ReplaceStrings_Appends(ipp, name, values) ==
  ippAddStrings(ipp, IPP_TAG_KEYWORD, name, Len(values), values)

\* Replace a keyword list: delete if found, then ippAddStrings (which the
\* code calls under if (num_source), if (num_type), and adds nothing for
\* an empty list)
ReplaceStrings(ipp, name, values) ==
  ippAddStrings(FindAndDelete(ipp, name, IPP_TAG_KEYWORD), IPP_TAG_KEYWORD,
                name, Len(values), values)

\* media-bottom-margin-supported; maxname = minname = NULL
CopyMediaStart(ipp, driver) ==
  [ ipp |-> ReplaceInteger(ipp, "media-bottom-margin-supported",
                           driver.bottom_top),
    attr |-> NULL, count |-> 0, minname |-> NoName, maxname |-> NoName ]

\* media-left-margin-supported, media-right-margin-supported
CopyMediaMargins(st, driver) ==
  [st EXCEPT !.ipp =
     ReplaceInteger(
       ReplaceInteger(st.ipp, "media-left-margin-supported", driver.left_right),
       "media-right-margin-supported", driver.left_right)]

\* media-source-supported, media-supported, media-top-margin-supported,
\* media-type-supported
CopyMediaRest(ipp, driver) ==
  ReplaceStrings(
    ReplaceInteger(
      ReplaceStrings(
        ReplaceStrings(ipp, "media-source-supported", driver.source),
        "media-supported", driver.media),
      "media-top-margin-supported", driver.bottom_top),
    "media-type-supported", driver.type)

lprint_copy_media(ipp, driver, junk) ==
  CopyMediaRest(
    CopyCollections(
      CopyMediaMargins(
        CopyCollections(CopyMediaStart(ipp, driver), "media-col-database",
                        driver, junk),
        driver),
      "media-size-supported", driver, junk).ipp,
    driver)

\* The last entry of the media list with that prefix test, NULL without one
RECURSIVE LastEntry(_, _, _)
LastEntry(media, max, i) ==
  IF i = 0 THEN NoName
  ELSE IF (max /\ IsRollMax(media[i]))
          \/ (~max /\ ~IsRollMax(media[i]) /\ IsRollMin(media[i]))
    THEN media[i]
  ELSE LastEntry(media, max, i - 1)

\* Whether lprint_copy_media reads through a NULL pwg_media_t pointer: a
\* fixed size, or minname or maxname when both are set, that the database
\* does not know
NullDeref(driver) ==
  \/ \E k \in 1..Len(driver.media) :
       /\ ~IsRollMax(driver.media[k]) /\ ~IsRollMin(driver.media[k])
       /\ pwgMediaForPWG(driver.media[k]) = << >>
  \/ /\ LastEntry(driver.media, TRUE, Len(driver.media)) # NoName
     /\ LastEntry(driver.media, FALSE, Len(driver.media)) # NoName
     /\ \/ pwgMediaForPWG(LastEntry(driver.media, TRUE, Len(driver.media))) = << >>
        \/ pwgMediaForPWG(LastEntry(driver.media, FALSE, Len(driver.media))) = << >>

---------------------------------------------------------------------------
(* The attributes lprintCreateDriver sets itself *)

\* printer-make-and-model: ippSetString on the attribute found, else ippAddString
SetMakeAndModel(ipp, i) ==
  IF ippFindAttribute(ipp, "printer-make-and-model", IPP_TAG_TEXT) # NULL
    THEN ippSetString(ipp,
           ippFindAttribute(ipp, "printer-make-and-model", IPP_TAG_TEXT),
           lprint_models[i])
    ELSE ippAddString(ipp, IPP_TAG_TEXT, "printer-make-and-model",
                      lprint_models[i])

\* Mutant: the token spans the lowest and the highest resolution
UrfResolution_MinMax(x_resolution, num_resolution) ==
  IF num_resolution = 1
    THEN "RS" \o ToString(x_resolution[1])
    ELSE "RS" \o ToString(x_resolution[1]) \o "-"
              \o ToString(x_resolution[num_resolution])

\* snprintf(rs, sizeof(rs), "RS%d", ...) and "RS%d-%d"
UrfResolution(x_resolution, num_resolution) ==
  IF num_resolution = 1
    THEN "RS" \o ToString(x_resolution[1])
    ELSE "RS" \o ToString(x_resolution[num_resolution - 1]) \o "-"
              \o ToString(x_resolution[num_resolution])

\* if (num_resolution > 0) { printer-resolution-default, -supported }
AddPrinterResolutions(ipp, driver) ==
  IF Len(driver.x_resolution) > 0
    THEN ippAddResolutions(
           ippAddResolution(ipp, "printer-resolution-default",
                            driver.x_resolution[Len(driver.x_resolution)],
                            driver.y_resolution[Len(driver.x_resolution)]),
           "printer-resolution-supported", Len(driver.x_resolution),
           driver.x_resolution, driver.y_resolution)
    ELSE ipp

\* if (num_resolution > 0) pwg-raster-document-resolution-supported
AddRasterResolutions(ipp, driver) ==
  IF Len(driver.x_resolution) > 0
    THEN ippAddResolutions(ipp, "pwg-raster-document-resolution-supported",
                           Len(driver.x_resolution),
                           driver.x_resolution, driver.y_resolution)
    ELSE ipp

\* if (num_resolution > 0) { urf-supported }
AddUrfSupported(ipp, driver) ==
  IF Len(driver.x_resolution) > 0
    THEN ippAddStrings(ipp, IPP_TAG_KEYWORD, "urf-supported", 3,
                       << "V1.4", "W8",
                          UrfResolution(driver.x_resolution,
                                        Len(driver.x_resolution)) >>)
    ELSE ipp

\* printer-resolution-default, printer-resolution-supported,
\* pwg-raster-document-resolution-supported and urf-supported: each is
\* deleted if found, then added for a driver with resolutions
SetResolutions(ipp, driver) ==
  AddUrfSupported(
    FindAndDelete(
      AddRasterResolutions(
        FindAndDelete(
          AddPrinterResolutions(
            FindAndDelete(
              FindAndDelete(ipp, "printer-resolution-default",
                            IPP_TAG_RESOLUTION),
              "printer-resolution-supported", IPP_TAG_RESOLUTION),
            driver),
          "pwg-raster-document-resolution-supported", IPP_TAG_RESOLUTION),
        driver),
      "urf-supported", IPP_TAG_KEYWORD),
    driver)

\* lprintGetMakeAndModel(driver), driver a pointer (<< >> is NULL)
lprintGetMakeAndModel(driver) ==
  IF driver # << >> /\ driver[1].name # NoName
       /\ DriverIndex(driver[1].name) # NULL
    THEN lprint_models[DriverIndex(driver[1].name)]
    ELSE "Unknown"

---------------------------------------------------------------------------
(* What the family initializers put into a new driver *)

Descriptor(media, res, source, type) ==
  [ media |-> media,
    x_resolution |-> [k \in 1..Len(res) |-> res[k][1]],
    y_resolution |-> [k \in 1..Len(res) |-> res[k][2]],
    source |-> source, type |-> type,
    left_right |-> 100, bottom_top |-> 525 ]

SeqsUpTo(S, n) == UNION { [1..k -> S] : k \in 0..n }

\* The drivers the concurrent specification attaches
DriverTable ==
  { Descriptor(<< "w36h23", "roll_min_w6", "roll_max_w101" >>,
               << <<203, 203>>, <<300, 300>>, <<600, 600>> >>,
               << "main-roll" >>, << "labels", "continuous" >>),
    Descriptor(<< "w36h23", "w54h144" >>, << <<300, 300>> >>, << >>, << >>),
    Descriptor(<< >>, << >>, << >>, << >>) }

MediaNames == { "w36h23", "w54h144", "roll_min_w6", "roll_max_w101" }

\* A media list holds at most one roll_min_ and at most one roll_max_ entry
MediaLists ==
  { m \in SeqsUpTo(MediaNames, MaxMedia) :
      /\ Cardinality({k \in 1..Len(m) : IsRollMin(m[k])}) <= 1
      /\ Cardinality({k \in 1..Len(m) : IsRollMax(m[k])}) <= 1 }

ResPairs == { <<203, 203>>, <<300, 300>>, <<300, 600>>, <<600, 600>> }

\* Resolution lists are sorted ascending
ResLists ==
  { r \in SeqsUpTo(ResPairs, MaxRes) :
      \A k \in 1..(Len(r) - 1) :
        r[k][1] <= r[k + 1][1] /\ r[k][2] <= r[k + 1][2] }

\* The drivers of the capability specification: every media list, and every
\* resolution list
CapsTable ==
  { Descriptor(m, << <<300, 300>> >>, << "main-roll" >>, << >>) : m \in MediaLists }
  \cup { Descriptor(<< "w36h23" >>, r, << >>, << "labels" >>) : r \in ResLists }

\* Drivers whose media lists name sizes the media database does not know
FaultTable ==
  { Descriptor(m, << <<300, 300>> >>, << >>, << >>) :
      m \in { << "w99h99" >>, << "w36h23", "w99h99" >>,
              << "w36h23", "roll_min_w6", "roll_max_w999" >>,
              << "roll_min_w0", "w36h23", "roll_max_w101" >>,
              << "w36h23", "roll_max_w999" >>,
              << "w36h23", "roll_min_w6", "roll_max_w101" >> } }

\* What a read through a NULL pointer yields when the process survives it
Junk == { [width |-> 0, length |-> 0] }

\* The family initializer chosen by keyword prefix fills the driver from its
\* tables
FamilyInit(family, Table) ==
  IF family \in {"CPCL", "DYMO", "EPL1", "EPL2", "FGL", "PCL", "ZPL"}
    THEN Table ELSE {}

---------------------------------------------------------------------------
(* State *)

BlankDriver ==
  [ st |-> "unalloc", name |-> NoName, device |-> NULL ]
  @@ Descriptor(<< >>, << >>, << >>, << >>)

FreedDriver == [BlankDriver EXCEPT !.st = "freed"]

BlankLocal ==
  [ name |-> NoName, i |-> NULL, driver |-> NULL, pre |-> << >>,
    predrv |-> NULL ]

\* lprint-driver keywords of the concurrent specification: one of the
\* registry and one that is not in it
Keywords == { "dymo_lw-450", "zpl_2inch-203dpi-dt" }

AllKeywords ==
  { lprint_drivers[k] : k \in 1..num_drivers } \cup { "zpl_2inch-203dpi-dt" }

\* The printer's attributes before any driver is attached; keyword = NoName
\* is a printer without lprint-driver
BaseAttrs(keyword) ==
  LET a == ippAddString(ippNew, IPP_TAG_TEXT, "printer-name", "label")
  IN  IF keyword = NoName THEN a
      ELSE ippAddString(a, IPP_TAG_KEYWORD, "lprint-driver", keyword)

\* The init states: used is the number of instances created and deleted
\* before; Olds are the drivers the capability attributes may come from.
InitWith(Keys, used, Olds) ==
  /\ \E k \in Keys \cup {NoName} : \E old \in Olds \cup {BlankDriver} :
       attrs = IF old = BlankDriver THEN BaseAttrs(k)
               ELSE SetResolutions(
                      SetMakeAndModel(
                        lprint_copy_media(BaseAttrs(k), old,
                                          CHOOSE j \in Junk : TRUE), 1),
                      old)
  /\ pdriver = NULL
  /\ rwlock = [writer |-> NULL, readers |-> 0]
  /\ heap = [d \in DriverIds |-> IF d <= used THEN FreedDriver ELSE BlankDriver]
  /\ closes = [d \in DriverIds |-> IF d <= used THEN 1 ELSE 0]
  /\ pc = [t \in Threads |-> "idle"]
  /\ local = [t \in Threads |-> BlankLocal]
  /\ mm = [driver |-> << >>, result |-> ""]
  /\ crashed = FALSE

---------------------------------------------------------------------------
(* lprintCreateDriver, statement by statement *)

InCreate == { "locked", "media", "model", "res", "unlock" }

\* Mutant: the lock is taken whoever holds it
WrLockFree_Always(rw) == TRUE

\* pthread_rwlock_wrlock returns once nobody else holds the lock
WrLockFree(rw) == rw.writer = NULL /\ rw.readers = 0

WrLock(t) ==
  /\ ~crashed
  /\ pc[t] = "idle"
  /\ WrLockFree(rwlock)
  /\ rwlock' = [rwlock EXCEPT !.writer = t]
  /\ pc' = [pc EXCEPT ![t] = "locked"]
  /\ local' = [local EXCEPT ![t] = [BlankLocal EXCEPT !.pre = attrs,
                                                      !.predrv = pdriver]]
  /\ UNCHANGED <<attrs, pdriver, heap, closes, mm, crashed>>

\* name = ippGetString(ippFindAttribute(attrs, "lprint-driver", KEYWORD), ...)
DriverKeyword(ipp) ==
  ippGetString(ipp, ippFindAttribute(ipp, "lprint-driver", IPP_TAG_KEYWORD))

\* Mutant: a keyword the registry lacks falls back to the last entry
LookupDriver_FallsBack(ipp) ==
  IF DriverKeyword(ipp) = NoName THEN NULL
  ELSE IF DriverIndex(DriverKeyword(ipp)) = NULL THEN num_drivers
  ELSE DriverIndex(DriverKeyword(ipp))

\* The registry entry of the printer's keyword, NULL without one
LookupDriver(ipp) ==
  IF DriverKeyword(ipp) = NoName THEN NULL
  ELSE DriverIndex(DriverKeyword(ipp))

\* calloc: the next instance, or NULL when there is none left
Calloc == IF \E d \in DriverIds : heap[d].st = "unalloc"
            THEN CHOOSE d \in DriverIds :
                   heap[d].st = "unalloc"
                   /\ \A e \in DriverIds : heap[e].st = "unalloc" => d <= e
            ELSE NULL

\* No keyword or no registry entry: straight to the unlock
NotFound(t) ==
  /\ ~crashed
  /\ pc[t] = "locked"
  /\ LookupDriver(attrs) = NULL
  /\ pc' = [pc EXCEPT ![t] = "unlock"]
  /\ local' = [local EXCEPT ![t].name = DriverKeyword(attrs)]
  /\ UNCHANGED <<attrs, pdriver, rwlock, heap, closes, mm, crashed>>

\* calloc returns NULL: nothing is attached
AllocFails(t) ==
  /\ ~crashed
  /\ pc[t] = "locked"
  /\ LookupDriver(attrs) # NULL
  /\ pc' = [pc EXCEPT ![t] = "unlock"]
  /\ local' = [local EXCEPT ![t].name = DriverKeyword(attrs),
                            ![t].i = LookupDriver(attrs)]
  /\ UNCHANGED <<attrs, pdriver, rwlock, heap, closes, mm, crashed>>

\* The new driver: calloc, strdup(name) (NULL when it fails), the family
\* initializer, printer->driver = driver
Attach(t, Table) ==
  /\ ~crashed
  /\ pc[t] = "locked"
  /\ LookupDriver(attrs) # NULL
  /\ Calloc # NULL
  /\ \E desc \in FamilyInit(DriverFamily(DriverKeyword(attrs)), Table) :
       \E dup \in {DriverKeyword(attrs), NoName} :
         heap' = [heap EXCEPT ![Calloc] =
                    [st |-> "live", name |-> dup, device |-> NULL] @@ desc]
  /\ pdriver' = Calloc
  /\ pc' = [pc EXCEPT ![t] = "media"]
  /\ local' = [local EXCEPT ![t].name = DriverKeyword(attrs),
                            ![t].i = LookupDriver(attrs),
                            ![t].driver = Calloc]
  /\ UNCHANGED <<attrs, rwlock, closes, mm, crashed>>

\* The outcomes of lprint_copy_media(printer, driver): the new attributes,
\* or, when it reads through a NULL pointer, a crash or a read of junk
CopyMediaOutcomes(ipp, driver) ==
  IF NullDeref(driver)
    THEN { [crashed |-> TRUE, ipp |-> ipp] }
         \cup { [crashed |-> FALSE, ipp |-> lprint_copy_media(ipp, driver, j)] :
                j \in Junk }
    ELSE { [crashed |-> FALSE,
            ipp |-> lprint_copy_media(ipp, driver, CHOOSE j \in Junk : TRUE)] }

CopyMedia(t) ==
  /\ ~crashed
  /\ pc[t] = "media"
  /\ \E o \in CopyMediaOutcomes(attrs, heap[local[t].driver]) :
       /\ attrs' = o.ipp
       /\ crashed' = o.crashed
       /\ pc' = [pc EXCEPT ![t] = IF o.crashed THEN "crashed" ELSE "model"]
  /\ UNCHANGED <<pdriver, rwlock, heap, closes, local, mm>>

MakeAndModel(t) ==
  /\ ~crashed
  /\ pc[t] = "model"
  /\ attrs' = SetMakeAndModel(attrs, local[t].i)
  /\ pc' = [pc EXCEPT ![t] = "res"]
  /\ UNCHANGED <<pdriver, rwlock, heap, closes, local, mm, crashed>>

Resolutions(t) ==
  /\ ~crashed
  /\ pc[t] = "res"
  /\ attrs' = SetResolutions(attrs, heap[local[t].driver])
  /\ pc' = [pc EXCEPT ![t] = "unlock"]
  /\ UNCHANGED <<pdriver, rwlock, heap, closes, local, mm, crashed>>

\* pthread_rwlock_unlock(&printer->rwlock): the caller's hold is dropped
RwUnlock(rw, t) == IF rw.writer = t THEN [rw EXCEPT !.writer = NULL] ELSE rw

\* pthread_rwlock_unlock; return (driver)
Unlock(t) ==
  /\ ~crashed
  /\ pc[t] = "unlock"
  /\ rwlock' = RwUnlock(rwlock, t)
  /\ local' = [local EXCEPT ![t].pre = << >>, ![t].predrv = NULL]
  /\ pc' = [pc EXCEPT ![t] = "done"]
  /\ UNCHANGED <<attrs, pdriver, heap, closes, mm, crashed>>

\* The caller takes the result and may call again
Return(t) ==
  /\ ~crashed
  /\ pc[t] = "done"
  /\ pc' = [pc EXCEPT ![t] = "idle"]
  /\ local' = [local EXCEPT ![t] = BlankLocal]
  /\ UNCHANGED <<attrs, pdriver, rwlock, heap, closes, mm, crashed>>

---------------------------------------------------------------------------
(* lprintDeleteDriver *)

\* The instances a caller can hand to lprintDeleteDriver: NULL, or a live
\* one that no lprintCreateDriver is still building
Deletable ==
  {NULL} \cup { d \in DriverIds :
                  /\ heap[d].st = "live"
                  /\ \A t \in Threads :
                       pc[t] \in InCreate => local[t].driver # d }

\* Mutant: the instance is freed without closing its device
lprintDeleteDriver_NoClose(driver) ==
  IF driver # NULL
    THEN /\ heap' = [heap EXCEPT ![driver] = FreedDriver]
         /\ UNCHANGED <<attrs, pdriver, rwlock, closes, pc, local, mm, crashed>>
    ELSE UNCHANGED vars

lprintDeleteDriver(driver) ==
  IF driver # NULL
    THEN /\ closes' = [closes EXCEPT ![driver] = @ + 1]
         /\ heap' = [heap EXCEPT ![driver] = FreedDriver]
         /\ UNCHANGED <<attrs, pdriver, rwlock, pc, local, mm, crashed>>
    ELSE UNCHANGED vars

DeleteDriver == ~crashed /\ \E d \in Deletable : lprintDeleteDriver(d)

---------------------------------------------------------------------------
(* The rest of the server *)

\* A reader of the printer takes the lock for reading
ObserverLock ==
  /\ ~crashed
  /\ rwlock.writer = NULL
  /\ rwlock.readers = 0
  /\ rwlock' = [rwlock EXCEPT !.readers = 1]
  /\ UNCHANGED <<attrs, pdriver, heap, closes, pc, local, mm, crashed>>

ObserverUnlock ==
  /\ ~crashed
  /\ rwlock.readers = 1
  /\ rwlock' = [rwlock EXCEPT !.readers = 0]
  /\ UNCHANGED <<attrs, pdriver, heap, closes, pc, local, mm, crashed>>

\* The printer's lprint-driver keyword is changed, under the lock
SetDriverKeyword(Keys) ==
  /\ ~crashed
  /\ WrLockFree(rwlock)
  /\ ippFindAttribute(attrs, "lprint-driver", IPP_TAG_KEYWORD) # NULL
  /\ \E k \in Keys :
       /\ k # DriverKeyword(attrs)
       /\ attrs' = ippSetString(attrs,
                     ippFindAttribute(attrs, "lprint-driver", IPP_TAG_KEYWORD), k)
  /\ UNCHANGED <<pdriver, rwlock, heap, closes, pc, local, mm, crashed>>

\* A driver that was not made from the registry
ForeignDriver == [BlankDriver EXCEPT !.st = "live", !.name = "zpl_2inch-203dpi-dt"]

GetMakeAndModel ==
  /\ ~crashed
  /\ \E driver \in {<< >>, <<ForeignDriver>>}
                   \cup { <<heap[d]>> : d \in {e \in DriverIds : heap[e].st = "live"} } :
       /\ mm' = [driver |-> driver, result |-> lprintGetMakeAndModel(driver)]
       /\ UNCHANGED <<attrs, pdriver, rwlock, heap, closes, pc, local, crashed>>

---------------------------------------------------------------------------
(* Specifications *)

System(Ts, Table, Keys) ==
     \/ \E t \in Ts : WrLock(t)
     \/ \E t \in Ts : NotFound(t)
     \/ \E t \in Ts : AllocFails(t)
     \/ \E t \in Ts : Attach(t, Table)
     \/ \E t \in Ts : CopyMedia(t)
     \/ \E t \in Ts : MakeAndModel(t)
     \/ \E t \in Ts : Resolutions(t)
     \/ \E t \in Ts : Unlock(t)
     \/ \E t \in Ts : Return(t)
     \/ DeleteDriver
     \/ ObserverLock
     \/ ObserverUnlock
     \/ SetDriverKeyword(Keys)

\* Threads creating and deleting drivers of one printer concurrently
Init == InitWith(Keywords, 0, {})
Next == System(Threads, DriverTable, Keywords)
Spec == Init /\ [][Next]_vars

\* The driver whose capabilities a printer may already advertise
OldDriver ==
  Descriptor(<< "w54h144", "roll_min_w6", "roll_max_w101" >>,
             << <<203, 203>>, <<600, 600>> >>, << "main-roll" >>, << "labels" >>)

\* One caller attaching one driver, drawn from every media list and every
\* resolution list, to a printer with or without earlier capabilities
InitCaps == InitWith(Keywords, MaxDrivers - 1, {OldDriver})
NextCaps == System({1}, CapsTable, Keywords)
SpecCaps == InitCaps /\ [][NextCaps]_vars

\* One caller, the printer's keyword drawn from the whole registry
InitRegistry == InitWith(AllKeywords, MaxDrivers - 1, {})
NextRegistry ==
  \/ System({1}, {Descriptor(<< "w36h23" >>, << <<300, 300>> >>, << >>, << >>)},
            Keywords)
  \/ GetMakeAndModel
SpecRegistry == InitRegistry /\ [][NextRegistry]_vars

\* One caller, the driver's media list naming sizes the database lacks
InitFault == InitWith(Keywords, MaxDrivers - 1, {OldDriver})
NextFault == System({1}, FaultTable, Keywords)
SpecFault == InitFault /\ [][NextFault]_vars

---------------------------------------------------------------------------
(* Properties *)

\* The attributes of a name, whatever their value tags
AttrsNamed(ipp, name) == SelectSeq(ipp, LAMBDA a : a.name = name)

\* The values of the one attribute of that name; << >> when there is none
ValuesOf(ipp, name) ==
  IF AttrsNamed(ipp, name) = << >> THEN << >>
  ELSE AttrsNamed(ipp, name)[1].values

HasPrefix(str, prefix) ==
  Len(str) >= Len(prefix) /\ SubSeq(str, 1, Len(prefix)) = prefix

IsSentinel(size_name) ==
  HasPrefix(size_name, "roll_min_") \/ HasPrefix(size_name, "roll_max_")

\* The discrete names of a media list, in list order
Discrete(media) == SelectSeq(media, LAMBDA m : ~IsSentinel(m))

Sentinels(media, prefix) == SelectSeq(media, LAMBDA m : HasPrefix(m, prefix))

RegistryKeywords == { lprint_drivers[k] : k \in 1..num_drivers }

\* The printer has no lprint-driver keyword, or one the registry lacks
KeywordMisses(ipp) ==
  \/ \A k \in 1..Len(ipp) :
       ~(ipp[k].name = "lprint-driver" /\ ipp[k].tag = IPP_TAG_KEYWORD)
  \/ \E k \in 1..Len(ipp) :
       /\ ipp[k].name = "lprint-driver" /\ ipp[k].tag = IPP_TAG_KEYWORD
       /\ \A j \in 1..(k - 1) :
            ~(ipp[j].name = "lprint-driver" /\ ipp[j].tag = IPP_TAG_KEYWORD)
       /\ ipp[k].values[1] \notin RegistryKeywords

SynthesizedNames ==
  { "media-bottom-margin-supported", "media-left-margin-supported",
    "media-right-margin-supported", "media-top-margin-supported",
    "media-col-database", "media-size-supported", "media-source-supported",
    "media-type-supported", "media-supported", "printer-make-and-model",
    "printer-resolution-default", "printer-resolution-supported",
    "pwg-raster-document-resolution-supported", "urf-supported" }

ResolutionNames ==
  { "printer-resolution-default", "printer-resolution-supported",
    "pwg-raster-document-resolution-supported", "urf-supported" }

\* The threads that have attached a driver and are past a given statement
Past(t, places) == pc[t] \in places /\ local[t].driver # NULL

\* C1: a lprintCreateDriver that finds no keyword, or a keyword the
\* registry lacks, returns NULL with printer->driver and printer->attrs as
\* they were when it took the lock, and with the lock released.
C1_NotFound ==
  [][ \A t \in Threads :
        (pc[t] = "unlock" /\ pc'[t] = "done" /\ KeywordMisses(local[t].pre))
          => /\ local'[t].driver = NULL
             /\ attrs' = local[t].pre
             /\ pdriver' = local[t].predrv
             /\ rwlock'.writer = NULL ]_vars

\* A call has returned NULL for a missing or unknown keyword on a printer
\* that carries an earlier driver
C1_Witness ==
  \E t \in Threads :
    /\ pc[t] = "done" /\ local[t].driver = NULL
    /\ local[t].name \notin RegistryKeywords
    /\ pdriver # NULL
    /\ rwlock.writer = NULL

\* C2: whatever drivers are attached one after the other, each synthesized
\* attribute name occurs at most once in printer->attrs.
C2_NoDuplicates ==
  \A n \in SynthesizedNames : Len(AttrsNamed(attrs, n)) <= 1

\* A second driver has been attached and its call has returned
C2_Witness ==
  \E t \in Threads : \E d \in DriverIds :
    /\ d > 1 /\ pc[t] = "done" /\ local[t].driver = d
    /\ heap[1].st # "unalloc"
    /\ Len(AttrsNamed(attrs, "media-supported")) = 1
    /\ Len(AttrsNamed(attrs, "printer-make-and-model")) = 1

\* What a media-size of a known size name holds
SizeOfName(size_name) ==
  << [name |-> "x-dimension", tag |-> IPP_TAG_INTEGER,
      values |-> << MediaDB[size_name].width >>],
     [name |-> "y-dimension", tag |-> IPP_TAG_INTEGER,
      values |-> << MediaDB[size_name].length >>] >>

\* The range size between two known size names
RangeOfNames(minname, maxname) ==
  << [name |-> "x-dimension", tag |-> IPP_TAG_RANGE,
      values |-> << [lower |-> MediaDB[minname].width,
                     upper |-> MediaDB[maxname].width] >>],
     [name |-> "y-dimension", tag |-> IPP_TAG_RANGE,
      values |-> << [lower |-> MediaDB[minname].length,
                     upper |-> MediaDB[maxname].length] >>] >>

\* Member k of media-col-database is the collection of the fixed size name
IsColOf(member, size_name) ==
  /\ Len(member) = 1
  /\ ValuesOf(member[1], "media-size-name") = << size_name >>
  /\ ValuesOf(member[1], "media-size") = << << SizeOfName(size_name) >> >>

\* The first k members of the two lists are the discrete names, in order
DiscreteEntries(ipp, media) ==
  /\ Len(AttrsNamed(ipp, "media-col-database")) <= 1
  /\ Len(AttrsNamed(ipp, "media-size-supported")) <= 1
  /\ Len(ValuesOf(ipp, "media-col-database")) >= Len(Discrete(media))
  /\ Len(ValuesOf(ipp, "media-size-supported")) >= Len(Discrete(media))
  /\ \A k \in 1..Len(Discrete(media)) :
       /\ IsColOf(ValuesOf(ipp, "media-col-database")[k], Discrete(media)[k])
       /\ ValuesOf(ipp, "media-size-supported")[k]
            = << SizeOfName(Discrete(media)[k]) >>

OneOfEach(media) ==
  Len(Sentinels(media, "roll_min_")) = 1 /\ Len(Sentinels(media, "roll_max_")) = 1

LoneSentinel(media) ==
  (Sentinels(media, "roll_min_") = << >>) # (Sentinels(media, "roll_max_") = << >>)

RollExample == << "w36h23", "roll_min_w6", "roll_max_w101" >>

\* C3: for a media list with one roll_min_ and one roll_max_ entry,
\* lprint_copy_media leaves media-col-database and media-size-supported
\* with one entry per discrete name, in list order, and then one range entry
\* whose x-dimension is [width(min), width(max)] and whose y-dimension is
\* [length(min), length(max)]; the example list gives 1 + 1 entries.
C3_RollRange ==
  \A t \in Threads :
    (Past(t, {"model", "res", "unlock"})
       /\ OneOfEach(heap[local[t].driver].media))
    => LET media == heap[local[t].driver].media
           n == Len(Discrete(media))
           range == RangeOfNames(Sentinels(media, "roll_min_")[1],
                                 Sentinels(media, "roll_max_")[1])
       IN  /\ DiscreteEntries(attrs, media)
           /\ Len(ValuesOf(attrs, "media-col-database")) = n + 1
           /\ Len(ValuesOf(attrs, "media-size-supported")) = n + 1
           /\ ValuesOf(attrs, "media-col-database")[n + 1]
                = << << [name |-> "media-size", tag |-> IPP_TAG_BEGIN_COLLECTION,
                         values |-> << << range >> >>] >> >>
           /\ ValuesOf(attrs, "media-size-supported")[n + 1] = << range >>
           /\ media = RollExample =>
                /\ n = 1
                /\ Len(ValuesOf(attrs, "media-size-supported")) = 2
                /\ ValuesOf(ValuesOf(attrs, "media-size-supported")[2][1],
                            "x-dimension") = << [lower |-> 212, upper |-> 3563] >>

\* lprint_copy_media has run on the example list, and on a list whose
\* sentinels come first
C3_Witness ==
  \E t \in Threads :
    /\ Past(t, {"model"})
    /\ heap[local[t].driver].media = RollExample
    /\ Len(ValuesOf(attrs, "media-col-database")) = 2

\* C4: for a non-empty resolution list, printer-resolution-default is the
\* last entry, printer-resolution-supported and
\* pwg-raster-document-resolution-supported are the whole list, and
\* urf-supported is V1.4, W8 and RS<x> for one resolution, RS<x of the
\* second-to-last>-<x of the last> for more.
C4_Resolutions ==
  \A t \in Threads :
    (Past(t, {"unlock"}) /\ Len(heap[local[t].driver].x_resolution) > 0)
    => LET x == heap[local[t].driver].x_resolution
           y == heap[local[t].driver].y_resolution
           n == Len(x)
           list == [k \in 1..n |-> <<x[k], y[k]>>]
       IN  /\ \A a \in ResolutionNames : Len(AttrsNamed(attrs, a)) = 1
           /\ ValuesOf(attrs, "printer-resolution-default") = << <<x[n], y[n]>> >>
           /\ ValuesOf(attrs, "printer-resolution-supported") = list
           /\ ValuesOf(attrs, "pwg-raster-document-resolution-supported") = list
           /\ Len(ValuesOf(attrs, "urf-supported")) = 3
           /\ SubSeq(ValuesOf(attrs, "urf-supported"), 1, 2) = << "V1.4", "W8" >>
           /\ n = 1 => ValuesOf(attrs, "urf-supported")[3] = "RS" \o ToString(x[1])
           /\ n > 1 => ValuesOf(attrs, "urf-supported")[3]
                         = "RS" \o ToString(x[n - 1]) \o "-" \o ToString(x[n])
           /\ list = << <<203, 203>>, <<300, 300>>, <<600, 600>> >> =>
                /\ ValuesOf(attrs, "printer-resolution-default") = << <<600, 600>> >>
                /\ ValuesOf(attrs, "urf-supported")[3] = "RS300-600"
           /\ list = << <<300, 300>> >> =>
                ValuesOf(attrs, "urf-supported")[3] = "RS300"

\* The resolution attributes were set for the list 203, 300, 600
C4_Witness ==
  \E t \in Threads :
    /\ Past(t, {"unlock"})
    /\ heap[local[t].driver].x_resolution = << 203, 300, 600 >>
    /\ ValuesOf(attrs, "urf-supported") = << "V1.4", "W8", "RS300-600" >>

\* C8 as claimed: for a media list with only one of the two sentinels,
\* media-col-database and media-size-supported hold exactly one entry per
\* discrete name and no other entry.
C8_LoneSentinel ==
  \A t \in Threads :
    (Past(t, {"model", "res", "unlock"})
       /\ LoneSentinel(heap[local[t].driver].media))
    => /\ DiscreteEntries(attrs, heap[local[t].driver].media)
       /\ Len(ValuesOf(attrs, "media-col-database"))
            = Len(Discrete(heap[local[t].driver].media))
       /\ Len(ValuesOf(attrs, "media-size-supported"))
            = Len(Discrete(heap[local[t].driver].media))

\* C9 as claimed: with an empty resolution list the resolution attributes
\* are after the call what they were before it.
C9_Unaffected ==
  \A t \in Threads :
    (Past(t, {"unlock"}) /\ heap[local[t].driver].x_resolution = << >>)
    => \A a \in ResolutionNames :
         AttrsNamed(attrs, a) = AttrsNamed(local[t].pre, a)

\* C9, amended: with an empty resolution list none of the resolution
\* attributes is present after the call; those present before are deleted.
C9_NoneLeft ==
  \A t \in Threads :
    (Past(t, {"unlock"}) /\ heap[local[t].driver].x_resolution = << >>)
    => \A a \in ResolutionNames : AttrsNamed(attrs, a) = << >>

\* A driver without resolutions was attached to a printer that advertised
\* resolutions
C9_Witness ==
  \E t \in Threads :
    /\ Past(t, {"unlock"})
    /\ heap[local[t].driver].x_resolution = << >>
    /\ \A a \in ResolutionNames : AttrsNamed(local[t].pre, a) # << >>

\* The attributes as a set
AttrSet(ipp) == { ipp[k] : k \in 1..Len(ipp) }

\* printer->attrs is what the synthesis for that driver leaves
Synthesized(ipp, driver) ==
  /\ AttrSet(SetResolutions(
               lprint_copy_media(ipp, driver, CHOOSE j \in Junk : TRUE), driver))
       = AttrSet(ipp)
  /\ driver.name # NoName =>
       ValuesOf(ipp, "printer-make-and-model")
         = << lprint_models[CHOOSE k \in 1..num_drivers :
                              lprint_drivers[k] = driver.name] >>

\* C5: at most one thread is inside lprintCreateDriver's locked section,
\* none is while a reader holds the lock, and a reader that holds the lock
\* finds printer->attrs fully synthesized for the driver printer->driver
\* points to.
C5_CriticalSection ==
  /\ Cardinality({t \in Threads : pc[t] \in InCreate}) <= 1
  /\ \A t \in Threads : pc[t] \in InCreate => rwlock.writer = t
  /\ rwlock.readers > 0 =>
       /\ \A t \in Threads : pc[t] \notin InCreate
       /\ (pdriver # NULL /\ heap[pdriver].st = "live")
            => Synthesized(attrs, heap[pdriver])

\* A reader holds the lock after two threads have each attached a driver
C5_Witness ==
  /\ rwlock.readers > 0
  /\ pdriver # NULL /\ heap[pdriver].st = "live"
  /\ \E t1, t2 \in Threads :
       /\ t1 # t2
       /\ pc[t1] = "done" /\ local[t1].driver # NULL
       /\ pc[t2] = "done" /\ local[t2].driver # NULL

\* C6: lprintDeleteDriver(NULL) changes nothing; on an instance it calls
\* lprintCloseDevice once and frees the instance, and leaves the printer's
\* lock and everything else alone; no instance is ever closed twice.
C6_Delete ==
  /\ [](\A d \in DriverIds :
          closes[d] = IF heap[d].st = "freed" THEN 1 ELSE 0)
  /\ [][ /\ lprintDeleteDriver(NULL) => UNCHANGED vars
         /\ \A d \in DriverIds :
              /\ (heap[d].st = "live" /\ heap'[d].st = "freed")
                   => /\ closes' = [closes EXCEPT ![d] = closes[d] + 1]
                      /\ UNCHANGED <<attrs, pdriver, rwlock, pc, local>>
              /\ closes'[d] # closes[d]
                   => (heap[d].st = "live" /\ heap'[d].st = "freed") ]_vars

\* An instance was deleted while a thread held the printer's lock
C6_Witness ==
  \E d \in DriverIds : \E t \in Threads :
    /\ heap[d].st = "freed" /\ closes[d] = 1
    /\ pc[t] = "media" /\ rwlock.writer = t
    /\ local[t].predrv = d

\* The model the registry gives a driver name
ModelOf(name) ==
  lprint_models[CHOOSE k \in 1..num_drivers : lprint_drivers[k] = name]

\* C7: lprintGetMakeAndModel returns lprint_models[i] for the name
\* lprint_drivers[i], and "Unknown" for NULL, for a driver without a name
\* and for a name the registry lacks; a successful lprintCreateDriver for
\* lprint_drivers[i] leaves printer-make-and-model = lprint_models[i].
C7_Registry ==
  /\ \A k \in 1..num_drivers :
       lprintGetMakeAndModel(<< [BlankDriver EXCEPT !.name = lprint_drivers[k]] >>)
         = lprint_models[k]
  /\ mm.result # "" =>
       mm.result = IF mm.driver = << >> THEN "Unknown"
                   ELSE IF mm.driver[1].name \notin RegistryKeywords THEN "Unknown"
                   ELSE ModelOf(mm.driver[1].name)
  /\ \A t \in Threads :
       Past(t, {"res", "unlock"}) =>
         /\ local[t].name \in RegistryKeywords
         /\ AttrsNamed(attrs, "printer-make-and-model")
              = << [name |-> "printer-make-and-model", tag |-> IPP_TAG_TEXT,
                    values |-> << ModelOf(local[t].name) >>] >>

\* The last registry entry was attached and its model asked for
C7_Witness ==
  /\ mm.result = "Dymo LabelWriter Wireless"
  /\ mm.driver # << >> /\ mm.driver[1].name = "dymo_lw-wireless"
  /\ ValuesOf(attrs, "printer-make-and-model") = << "Dymo LabelWriter Wireless" >>

\* C10 as claimed: a size name the media database lacks does not crash the
\* process, and the attributes the printer held before the call are intact.
C10_LookupFails ==
  /\ ~crashed
  /\ \A t \in Threads :
       (Past(t, {"model", "res", "unlock"}) /\ NullDeref(heap[local[t].driver]))
         => attrs = local[t].pre

=============================================================================
